---- MODULE Spec2Model ----
(***************************************************************************)
(* Model of api/python_scripts/excel_batch_processor.py: the batch run of  *)
(* ExcelBatchProcessor.process_excel_file (row filtering, the thread pool, *)
(* the per-row submit / poll / download pipeline, failure reporting and    *)
(* bundling) and FailureReport.append_to_global_summary.                   *)
(*                                                                         *)
(* Strings are sequences of one-character strings.  Remote responses and   *)
(* file-system faults are inputs, chosen with \E from small sets.          *)
(***************************************************************************)
EXTENDS Integers, Sequences, FiniteSets, TLC

VARIABLES
    pc,                 \* position of the thread running process_excel_file
    df,                 \* the rows read from the Excel file
    valid_rows,         \* process_excel_file: valid_rows
    result,             \* process_excel_file: result
    failures,           \* FailureReport.failures
    task,               \* one entry per valid row: its future and what its worker did
    pdf_files,          \* process_excel_file: pdf_files
    fs,                 \* files of the output directory: name -> content
    failure_report_path,\* process_excel_file: failure_report_path
    summary,            \* the global summary file failure_summary.xlsx
    zip,                \* the archive written by create_zip_file
    sm,                 \* the append_to_global_summary calls made so far and their effects
    call                \* one call of a method run on its own: its arguments and locals

vars == <<pc, df, valid_rows, result, failures, task, pdf_files, fs,
          failure_report_path, summary, zip, sm, call>>

(***************************************************************************)
(* Bounds of the model.                                                    *)
(***************************************************************************)
MaxRows == 3
MaxRowsFair == 2
MaxScript == 2
MaxRecords == 2
MaxTs == 2
MaxAppends == 2
MaxCallers == 3
MaxBody == 2

(***************************************************************************)
(* Program constants.                                                      *)
(***************************************************************************)
\* the pool width handed to ExcelBatchProcessor (15 when the caller names none)
max_workers == 2
MaxFilenameLen == 100
max_wait_time == 300
PollMaxRetries == 3
PollSleep == 10
BackoffStep == 5
BackoffCap == 30
DownloadMaxRetries == 3

\* None where the program holds a path, NaN where a cell of the sheet is empty
None == <<>>
NaN == <<"NaN">>

Min(a, b) == IF a < b THEN a ELSE b

(***************************************************************************)
(* str methods used by the program.                                        *)
(***************************************************************************)
Whitespace == {" ", "\t", "\n", "\r"}

RECURSIVE LStrip(_)
LStrip(s) == IF s # <<>> /\ Head(s) \in Whitespace THEN LStrip(Tail(s)) ELSE s

RECURSIVE RStrip(_)
RStrip(s) ==
    IF s # <<>> /\ s[Len(s)] \in Whitespace
    THEN RStrip(SubSeq(s, 1, Len(s) - 1))
    ELSE s

\* str.strip()
Strip(s) == RStrip(LStrip(s))

\* str.startswith(p)
StartsWith(s, p) == Len(s) >= Len(p) /\ SubSeq(s, 1, Len(p)) = p

\* str.find(old): the first index at which old occurs, 0 when there is none
Find(s, old) ==
    LET hits == {i \in 1..(Len(s) - Len(old) + 1) : SubSeq(s, i, i + Len(old) - 1) = old}
    IN  IF hits = {} THEN 0 ELSE CHOOSE i \in hits : \A j \in hits : i <= j

\* str.replace(old, new, 1)
ReplaceFirst(s, old, new) ==
    LET i == Find(s, old)
    IN  IF i = 0 THEN s
        ELSE SubSeq(s, 1, i - 1) \o new \o SubSeq(s, i + Len(old), Len(s))

HttpsColonSlash == <<"h", "t", "t", "p", "s", ":", "/">>
HttpColonSlash == <<"h", "t", "t", "p", ":", "/">>
HttpsSlash == <<"h", "t", "t", "p", "s", "/">>
HttpSlash == <<"h", "t", "t", "p", "/">>
HttpsCanon == <<"h", "t", "t", "p", "s", ":", "/", "/">>
HttpCanon == <<"h", "t", "t", "p", ":", "/", "/">>

\* fix_url_format without the rules of lines 224-231 for a missing colon
fix_url_format_colon_rules(url) ==
    IF url = <<>> THEN url
    ELSE IF Strip(url) = <<>> THEN Strip(url)
    ELSE IF StartsWith(Strip(url), HttpsColonSlash) /\ ~StartsWith(Strip(url), HttpsCanon)
         THEN ReplaceFirst(Strip(url), HttpsColonSlash, HttpsCanon)
    ELSE IF StartsWith(Strip(url), HttpColonSlash) /\ ~StartsWith(Strip(url), HttpCanon)
         THEN ReplaceFirst(Strip(url), HttpColonSlash, HttpCanon)
    ELSE Strip(url)

\* fix_url_format whose rules do not ask whether the prefix is canonical already
fix_url_format_unguarded(url) ==
    IF url = <<>> THEN url
    ELSE IF Strip(url) = <<>> THEN Strip(url)
    ELSE IF StartsWith(Strip(url), HttpsColonSlash)
         THEN ReplaceFirst(Strip(url), HttpsColonSlash, HttpsCanon)
    ELSE IF StartsWith(Strip(url), HttpColonSlash)
         THEN ReplaceFirst(Strip(url), HttpColonSlash, HttpCanon)
    ELSE IF StartsWith(Strip(url), HttpsSlash)
         THEN ReplaceFirst(Strip(url), HttpsSlash, HttpsCanon)
    ELSE IF StartsWith(Strip(url), HttpSlash)
         THEN ReplaceFirst(Strip(url), HttpSlash, HttpCanon)
    ELSE Strip(url)

\* ExcelBatchProcessor.fix_url_format, on the str process_excel_file passes
fix_url_format(url) ==
    IF url = <<>> THEN url
    ELSE LET original_url == Strip(url)
         IN  IF original_url = <<>> THEN original_url
             ELSE IF StartsWith(original_url, HttpsColonSlash) /\ ~StartsWith(original_url, HttpsCanon)
                  THEN ReplaceFirst(original_url, HttpsColonSlash, HttpsCanon)
             ELSE IF StartsWith(original_url, HttpColonSlash) /\ ~StartsWith(original_url, HttpCanon)
                  THEN ReplaceFirst(original_url, HttpColonSlash, HttpCanon)
             ELSE IF StartsWith(original_url, HttpsSlash) /\ ~StartsWith(original_url, HttpsCanon)
                  THEN ReplaceFirst(original_url, HttpsSlash, HttpsCanon)
             ELSE IF StartsWith(original_url, HttpSlash) /\ ~StartsWith(original_url, HttpCanon)
                  THEN ReplaceFirst(original_url, HttpSlash, HttpCanon)
             ELSE original_url

(***************************************************************************)
(* urllib.parse.urlparse, as far as validate_url reads it: the scheme is   *)
(* the text before the first ':' when it starts with a letter and holds    *)
(* only scheme characters; the netloc is the text between a leading '//'   *)
(* and the next '/', '?' or '#'.                                           *)
(***************************************************************************)
Letters == {"h", "t", "p", "s", "x", "n", "a"}
SchemeChars == Letters \cup {"+", "-", "."}
NetlocDelims == {"/", "?", "#"}

UrlParse(url) ==
    LET u == LStrip(url)
        i == Find(u, <<":">>)
        hasScheme == /\ i > 1
                     /\ u[1] \in Letters
                     /\ \A k \in 1..(i - 1) : u[k] \in SchemeChars
        scheme == IF hasScheme THEN SubSeq(u, 1, i - 1) ELSE <<>>
        rest == IF hasScheme THEN SubSeq(u, i + 1, Len(u)) ELSE u
        ends == {k \in 3..Len(rest) : rest[k] \in NetlocDelims}
        stop == IF ends = {} THEN Len(rest) + 1
                ELSE CHOOSE k \in ends : \A j \in ends : k <= j
        netloc == IF StartsWith(rest, <<"/", "/">>) THEN SubSeq(rest, 3, stop - 1) ELSE <<>>
    IN  [scheme |-> scheme, netloc |-> netloc]

\* ExcelBatchProcessor.validate_url
validate_url(url) ==
    IF url = <<>> THEN FALSE
    ELSE LET u == Strip(url)
         IN  IF u = <<>> THEN FALSE
             ELSE UrlParse(u).scheme # <<>> /\ UrlParse(u).netloc # <<>>

(***************************************************************************)
(* ExcelBatchProcessor.clean_filename.  "CTRL" stands for a character of   *)
(* [\x00-\x1f\x7f-\xff] that is not whitespace.                            *)
(***************************************************************************)
Removed == {"CTRL", "\t", "\n", "\r"}
Unsafe == {"\"", "\\", "/", ":", "*", "?", "<", ">", "|"}
Untitled == <<"u", "n", "t", "i", "t", "l", "e", "d">>

\* re.sub(r'[\x00-\x1f\x7f-\xff]', '', filename)
Kept(c) == c \notin Removed
RemoveChars(s) == SelectSeq(s, Kept)

ReplaceUnsafe(s) == [i \in 1..Len(s) |-> IF s[i] \in Unsafe THEN "_" ELSE s[i]]

clean_filename(filename) ==
    IF filename = <<>> THEN Untitled
    ELSE LET cleaned == ReplaceUnsafe(RemoveChars(filename))
         IN  IF cleaned = <<>> \/ Strip(cleaned) = <<>> THEN Untitled
             ELSE LET t == Strip(cleaned) IN SubSeq(t, 1, Min(Len(t), MaxFilenameLen))

\* process_single_url: pdf_filename = f"{clean_filename}.pdf"
PdfPath(title) == Append(clean_filename(title), ".pdf")

(***************************************************************************)
(* ExcelBatchProcessor.wait_for_task_completion.  The remote service is    *)
(* an input: the responses to the first polls (script), the response to    *)
(* every later poll (tail) and the seconds a status request takes          *)
(* (latency).  The loop state records the polls made.                      *)
(***************************************************************************)
PollResponses ==
    {"completed", "failed", "pending", "processing", "unknown",
     "http404", "httpOther", "timeout", "connerr", "exception"}

Latencies == {0, 30}

RECURSIVE SeqsUpTo(_, _)
SeqsUpTo(S, n) ==
    IF n = 0 THEN {<<>>}
    ELSE LET shorter == SeqsUpTo(S, n - 1)
         IN  shorter \cup {Append(s, x) : s \in {t \in shorter : Len(t) = n - 1}, x \in S}

RemoteBehaviours ==
    [script : SeqsUpTo(PollResponses, MaxScript), tail : PollResponses, latency : Latencies]

ResponseAt(b, k) == IF k <= Len(b.script) THEN b.script[k] ELSE b.tail

WaitInit ==
    [elapsed |-> 0, retry_count |-> 0, polls |-> 0, ret |-> "run",
     saw404 |-> FALSE, after404 |-> 0, sawCompleted |-> FALSE,
     lateStart |-> FALSE, timedOut |-> FALSE]

\* time.sleep(min(5 * (retry_count + 1), 30)), line 341
Backoff(retry_count) == Min(BackoffStep * (retry_count + 1), BackoffCap)

\* PollStep that takes the status 'failed' for the end of the wait, like 'completed'
PollStepFailedPasses(s, resp, latency) ==
    LET polled == [s EXCEPT !.polls = @ + 1,
                            !.elapsed = @ + latency,
                            !.after404 = IF s.saw404 THEN @ + 1 ELSE @,
                            !.lateStart = @ \/ s.elapsed >= max_wait_time]
    IN  CASE resp = "completed" ->
               [polled EXCEPT !.ret = "True", !.sawCompleted = TRUE]
          [] resp = "failed" ->
               [polled EXCEPT !.ret = "True"]
          [] resp \in {"pending", "processing"} ->
               [polled EXCEPT !.elapsed = @ + PollSleep, !.retry_count = 0]
          [] resp = "http404" ->
               [polled EXCEPT !.ret = "False", !.saw404 = TRUE]
          [] resp \in {"unknown", "httpOther"} ->
               [polled EXCEPT !.elapsed = @ + Backoff(s.retry_count)]
          [] resp \in {"timeout", "connerr", "exception"} ->
               IF s.retry_count + 1 >= PollMaxRetries
               THEN [polled EXCEPT !.retry_count = @ + 1, !.ret = "False"]
               ELSE [polled EXCEPT !.retry_count = @ + 1,
                                   !.elapsed = @ + Backoff(s.retry_count + 1)]

\* PollStep with HTTP 404 handled like any other non-200 status
PollStepRetries404(s, resp, latency) ==
    LET polled == [s EXCEPT !.polls = @ + 1,
                            !.elapsed = @ + latency,
                            !.after404 = IF s.saw404 THEN @ + 1 ELSE @,
                            !.lateStart = @ \/ s.elapsed >= max_wait_time]
    IN  CASE resp = "completed" ->
               [polled EXCEPT !.ret = "True", !.sawCompleted = TRUE]
          [] resp = "failed" ->
               [polled EXCEPT !.ret = "False"]
          [] resp \in {"pending", "processing"} ->
               [polled EXCEPT !.elapsed = @ + PollSleep, !.retry_count = 0]
          [] resp = "http404" ->
               [polled EXCEPT !.elapsed = @ + Backoff(s.retry_count), !.saw404 = TRUE]
          [] resp \in {"unknown", "httpOther"} ->
               [polled EXCEPT !.elapsed = @ + Backoff(s.retry_count)]
          [] resp \in {"timeout", "connerr", "exception"} ->
               IF s.retry_count + 1 >= PollMaxRetries
               THEN [polled EXCEPT !.retry_count = @ + 1, !.ret = "False"]
               ELSE [polled EXCEPT !.retry_count = @ + 1,
                                   !.elapsed = @ + Backoff(s.retry_count + 1)]

\* one pass through the body of the while loop (lines 292-341), the status
\* request answered by resp after latency seconds
PollStep(s, resp, latency) ==
    LET polled == [s EXCEPT !.polls = @ + 1,
                            !.elapsed = @ + latency,
                            !.after404 = IF s.saw404 THEN @ + 1 ELSE @,
                            !.lateStart = @ \/ s.elapsed >= max_wait_time]
    IN  CASE resp = "completed" ->
               [polled EXCEPT !.ret = "True", !.sawCompleted = TRUE]
          [] resp = "failed" ->
               [polled EXCEPT !.ret = "False"]
          [] resp \in {"pending", "processing"} ->
               [polled EXCEPT !.elapsed = @ + PollSleep, !.retry_count = 0]
          [] resp = "http404" ->
               [polled EXCEPT !.ret = "False", !.saw404 = TRUE]
          [] resp \in {"unknown", "httpOther"} ->
               [polled EXCEPT !.elapsed = @ + Backoff(s.retry_count)]
          [] resp \in {"timeout", "connerr", "exception"} ->
               IF s.retry_count + 1 >= PollMaxRetries
               THEN [polled EXCEPT !.retry_count = @ + 1, !.ret = "False"]
               ELSE [polled EXCEPT !.retry_count = @ + 1,
                                   !.elapsed = @ + Backoff(s.retry_count + 1)]

\* WaitGuard with <= for <
WaitGuardInclusive(s) == s.elapsed <= max_wait_time

\* the while condition of line 291 and the return of line 344
WaitGuard(s) == s.elapsed < max_wait_time

RECURSIVE WaitLoop(_, _)
WaitLoop(b, s) ==
    IF s.ret # "run" THEN s
    ELSE IF ~WaitGuard(s) THEN [s EXCEPT !.ret = "False", !.timedOut = TRUE]
    ELSE WaitLoop(b, PollStep(s, ResponseAt(b, s.polls + 1), b.latency))

wait_for_task_completion(b) == WaitLoop(b, WaitInit)

\* what a run of process_single_url can observe of one wait
WaitOutcomes ==
    {[ret |-> w.ret, saw404 |-> w.saw404, after404 |-> w.after404,
      sawCompleted |-> w.sawCompleted] :
        w \in {wait_for_task_completion(b) : b \in RemoteBehaviours}}

(***************************************************************************)
(* ExcelBatchProcessor.download_pdf.  The content of a file of the output  *)
(* directory is [by, state]: the task whose download wrote it and whether  *)
(* it holds the whole body ("full") or a part of it, which may be no byte  *)
(* ("partial"); NoFile when there is no file.  The remote service is an    *)
(* input: the outcome of each of the download requests.                    *)
(*   ok      200 and a body that is streamed to the end                    *)
(*   empty   200 and a body of no bytes                                    *)
(*   cut     200 and iter_content raises before the body's last chunk     *)
(***************************************************************************)
NoFile == [by |-> 0, state |-> "absent"]

DownloadResponses ==
    {"ok", "empty", "cut", "http404", "httpOther", "timeout", "connerr", "exception"}

DownloadBehaviours == [1..DownloadMaxRetries -> DownloadResponses]

\* one pass through the body of the while loop (lines 352-390)
DownloadStep(s, resp, tid) ==
    LET tried == [s EXCEPT !.attempts = @ + 1]
        again == [tried EXCEPT !.retry_count = @ + 1]
    IN  CASE resp = "ok" ->
               [tried EXCEPT !.ret = "True", !.file = [by |-> tid, state |-> "full"]]
          [] resp = "empty" ->
               \* open(..., 'wb') leaves an empty file; lines 370-373 remove it
               [again EXCEPT !.file = NoFile]
          [] resp = "cut" ->
               [again EXCEPT !.file = [by |-> tid, state |-> "partial"]]
          [] resp = "http404" ->
               [tried EXCEPT !.ret = "False"]
          [] resp \in {"httpOther", "timeout", "connerr", "exception"} ->
               again

RECURSIVE DownloadLoop(_, _, _)
DownloadLoop(b, s, tid) ==
    IF s.ret # "run" THEN s
    ELSE IF ~(s.retry_count < DownloadMaxRetries) THEN [s EXCEPT !.ret = "False"]
    ELSE DownloadLoop(b, DownloadStep(s, b[s.attempts + 1], tid), tid)

\* download_pdf(task_id, output_path), file0 the file at output_path on entry
download_pdf(b, tid, file0) ==
    DownloadLoop(b, [retry_count |-> 0, attempts |-> 0, ret |-> "run", file |-> file0], tid)

\* the distinct effects of one download of task tid on the file at its path
DownloadEffects(tid, file0) ==
    {[ret |-> d.ret, file |-> d.file] :
        d \in {download_pdf(b, tid, file0) : b \in DownloadBehaviours}}

\* what a path can hold when a download starts: nothing, or what an earlier
\* download to the same path left there
FileContents == {NoFile} \cup [by : 1..MaxRows, state : {"full", "partial"}]

\* DownloadEffects, tabulated
DownloadTable ==
    [tid \in 1..MaxRows |-> [file0 \in FileContents |-> DownloadEffects(tid, file0)]]
DownloadOutcomes(tid, file0) == DownloadTable[tid][file0]

(***************************************************************************)
(* FailureReport.                                                          *)
(***************************************************************************)
InvalidUrl == "invalid URL format"
CreateFailed == "create task failed"
WaitFailed == "task timed out or failed"
DownloadFailed == "PDF download failed"
ProcessingExc == "processing exception"
ParallelExc == "parallel processing exception"

\* add_failure that binds the list to a new one holding the record
add_failure_rebinds(fl, title_link, title, reason, now) ==
    <<[link |-> title_link, title |-> title, reason |-> reason, ts |-> now]>>

\* FailureReport.add_failure, now the timestamp passed or the second
\* datetime.now() yields (lines 45-46; process_excel_file passes none)
add_failure(fl, title_link, title, reason, now) ==
    Append(fl, [link |-> title_link, title |-> title, reason |-> reason, ts |-> now])

\* DataFrame.sort_values('失败时间', ascending=False): insertion of one record
RECURSIVE InsertDesc(_, _)
InsertDesc(sorted, r) ==
    IF sorted = <<>> THEN <<r>>
    ELSE IF Head(sorted).ts >= r.ts THEN <<Head(sorted)>> \o InsertDesc(Tail(sorted), r)
    ELSE <<r>> \o sorted

\* SortDesc with the sort left out
NoSort(t) == t

RECURSIVE SortDesc(_)
SortDesc(t) == IF t = <<>> THEN <<>> ELSE InsertDesc(SortDesc(SubSeq(t, 1, Len(t) - 1)), t[Len(t)])

\* the summary file: absent, unreadable, or a table of failure records
Absent == [kind |-> "absent", rows |-> <<>>]
Corrupt == [kind |-> "corrupt", rows |-> <<>>]
Table(rows) == [kind |-> "table", rows |-> rows]
\* the table pd.read_excel yields, or an empty DataFrame (lines 83-93)
ReadSummary(f) == IF f.kind = "table" THEN f.rows ELSE <<>>

WriteOutcomes == {"ok", "fail", "torn"}

\* FailureReport.append_to_global_summary: [ret, file], the write to the
\* summary path ending as w says
append_to_global_summary(fl, f, w) ==
    IF fl = <<>> THEN [ret |-> TRUE, file |-> f]
    ELSE LET existing_df == ReadSummary(f)
             combined_df == SortDesc(IF existing_df # <<>> THEN existing_df \o fl ELSE fl)
         IN  CASE w = "ok" -> [ret |-> TRUE, file |-> Table(combined_df)]
               [] w = "fail" -> [ret |-> FALSE, file |-> f]
               [] w = "torn" -> [ret |-> FALSE, file |-> Corrupt]

(***************************************************************************)
(* The input of a run: rows of the Excel file, column '标题链接' (url) and   *)
(* column '标题' (title, NaN when the cell is empty).                        *)
(***************************************************************************)
UrlGood == <<"h", "t", "t", "p", ":", "/", "/", "x">>
UrlFixable == <<"h", "t", "t", "p", "s", ":", "/", "x">>
UrlBad == <<"n", "a", "n">>

UrlNoHost == <<"h", "t", "t", "p", ":", "x">>

\* a sheet: two rows whose titles differ and sanitise to the same file name,
\* a row with an empty link cell (str(nan) is 'nan'), a row without a title,
\* and a row whose link has no host
Sheet ==
    <<[url |-> UrlGood, title |-> <<"a", "/">>],
      [url |-> UrlFixable, title |-> <<"a", ":">>],
      [url |-> UrlBad, title |-> NaN],
      [url |-> UrlGood, title |-> NaN],
      [url |-> UrlNoHost, title |-> <<"b">>]>>

\* the rows of s at the positions of the strictly increasing sequence at
Pick(s, at) == [k \in 1..Len(at) |-> s[at[k]]]
Increasing(at) == \A k \in 1..(Len(at) - 1) : at[k] < at[k + 1]

\* the inputs of the model: the sheets of at most MaxRows rows of Sheet, in order
Inputs ==
    {Pick(Sheet, at) : at \in {a \in SeqsUpTo(1..Len(Sheet), Min(MaxRows, Len(Sheet))) : Increasing(a)}}

ReportName == <<"failure_report.xlsx">>

\* the records of one batch run carry the second of the run: the run's own
\* steps read no timestamp (SpecSummary draws the timestamps freely)
RunSecond == MaxTs

\* lines 479-488: the url and the file name process_excel_file derives from a row
OriginalUrl(row) == Strip(row.url)
FixedUrl(row) == fix_url_format(OriginalUrl(row))
FileName(row) == IF row.title # NaN THEN Strip(row.title) ELSE FixedUrl(row)

\* FilterFrom with the result of validate_url ignored
RECURSIVE FilterFromAdmitAll(_, _, _, _)
FilterFromAdmitAll(rows, i, acc, now) ==
    IF i > Len(rows) THEN acc
    ELSE FilterFromAdmitAll(rows, i + 1,
             [acc EXCEPT !.valid_rows =
                 Append(@, [index |-> i, url |-> FixedUrl(rows[i]), filename |-> FileName(rows[i])])],
             now)

\* the loop of lines 478-507 from row i on: acc = [valid_rows, failures]
RECURSIVE FilterFrom(_, _, _, _)
FilterFrom(rows, i, acc, now) ==
    IF i > Len(rows) THEN acc
    ELSE LET row == rows[i]
             is_valid == validate_url(FixedUrl(row))
         IN  FilterFrom(rows, i + 1,
                 IF is_valid
                 THEN [acc EXCEPT !.valid_rows =
                          Append(@, [index |-> i, url |-> FixedUrl(row), filename |-> FileName(row)])]
                 ELSE [acc EXCEPT !.failures =
                          add_failure(@, OriginalUrl(row), FileName(row), InvalidUrl, now)],
                 now)

(***************************************************************************)
(* Files of the output directory.                                          *)
(***************************************************************************)
Exists(files, name) == \E f \in files : f.name = name
FileAt(files, name) ==
    IF Exists(files, name) THEN (CHOOSE f \in files : f.name = name).content ELSE NoFile
WriteFile(files, name, content) ==
    {f \in files : f.name # name}
        \cup (IF content = NoFile THEN {} ELSE {[name |-> name, content |-> content]})

\* a future: not done, or done with the tuple process_single_url returned
\* (success, the pdf path or the error message), or done with an exception
Pending == [state |-> "pending", success |-> FALSE, value |-> <<>>]
Failed(reason) == [state |-> "returned", success |-> FALSE, value |-> <<reason>>]
Succeeded(path) == [state |-> "returned", success |-> TRUE, value |-> path]
Raised == [state |-> "raised", success |-> FALSE, value |-> <<>>]

Tasks == DOMAIN task
Running == {i \in Tasks : task[i].st \in {"submit", "wait", "download"}}
Row(i) == valid_rows[i]
NewTask ==
    [st |-> "new", fut |-> Pending, calls |-> <<>>, saw404 |-> FALSE, after404 |-> 0,
     sawCompleted |-> FALSE, dispatched |-> 0, completed |-> 0, failed |-> 0]


\* a summary an earlier run wrote
OldSummary == Table(<<[link |-> UrlBad, title |-> UrlBad, reason |-> InvalidUrl, ts |-> 0]>>)
NoZip == [written |-> FALSE, entries |-> <<>>]
\* the calls of append_to_global_summary made on one FailureReport: the file
\* before the first call, and each call's return value and resulting file
NoAppends == [file0 |-> Absent, rets |-> <<>>, files |-> <<>>]
\* no method is run on its own
NoCall == [fn |-> "none"]

Init ==
    /\ pc = "start"
    /\ df = <<>>
    /\ valid_rows = <<>>
    /\ result = [success |-> FALSE, total_tasks |-> 0, completed_tasks |-> 0,
                 failed_tasks |-> 0, zip_path |-> None, errors |-> <<>>]
    /\ failures = <<>>
    /\ task = <<>>
    /\ pdf_files = <<>>
    /\ fs = {}
    /\ failure_report_path = None
    /\ summary = OldSummary
    /\ zip = NoZip
    /\ sm = NoAppends
    /\ call = NoCall

\* line 474, read_excel_file: the rows, or an exception that line 606 catches
ReadExcelOf(sheets) ==
    /\ pc = "start"
    /\ \/ /\ \E rows \in sheets : df' = rows
          /\ pc' = "filter"
          /\ UNCHANGED result
       \/ /\ result' = [result EXCEPT !.errors = Append(@, "read failed")]
          /\ pc' = "returned"
          /\ UNCHANGED df
    /\ UNCHANGED <<valid_rows, failures, task, pdf_files, fs, failure_report_path,
                   summary, zip, sm, call>>

ReadExcel == ReadExcelOf(Inputs)

\* the sheets of at most MaxRowsFair rows
ShortInputs == {d \in Inputs : Len(d) <= MaxRowsFair}
ReadShortExcel == ReadExcelOf(ShortInputs)

\* NoValidRows without the error message
NoValidRowsSilent(res) == [res EXCEPT !.total_tasks = 0]

\* lines 509-513: the result returned when no row is valid
NoValidRows(res) == [res EXCEPT !.total_tasks = 0, !.errors = Append(@, "no valid URL")]

\* the outcome of the loop of lines 476-507 for every sheet, from the empty
\* FailureReport that __init__ builds (line 150)
FilterTable ==
    [d \in Inputs |-> FilterFrom(d, 1, [valid_rows |-> <<>>, failures |-> <<>>], RunSecond)]
Filtered == FilterTable[df]

\* lines 476-513
FilterRows ==
    /\ pc = "filter"
    /\ valid_rows' = Filtered.valid_rows
    /\ failures' = Filtered.failures
    /\ task' = [i \in 1..Len(Filtered.valid_rows) |-> NewTask]
    /\ result' = IF Filtered.valid_rows = <<>>
                 THEN NoValidRows(result)
                 ELSE [result EXCEPT !.total_tasks = Len(Filtered.valid_rows)]
    /\ pc' = IF Filtered.valid_rows = <<>> THEN "returned" ELSE "mkdir"
    /\ UNCHANGED <<df, pdf_files, fs, failure_report_path, summary, zip, sm, call>>

\* line 521, os.makedirs: done, or an OSError that line 606 catches
MakeDirs ==
    /\ pc = "mkdir"
    /\ \/ /\ pc' = "pool"
          /\ UNCHANGED result
       \/ /\ result' = [result EXCEPT !.errors = Append(@, "makedirs failed")]
          /\ pc' = "returned"
    /\ UNCHANGED <<df, valid_rows, failures, task, pdf_files, fs, failure_report_path,
                   summary, zip, sm, call>>

\* lines 528-531, executor.submit for the next row of valid_rows
ExecutorSubmit(i) ==
    /\ pc = "pool"
    /\ i \in Tasks
    /\ task[i].st = "new"
    /\ \A j \in Tasks : j < i => task[j].st # "new"
    /\ task' = [task EXCEPT ![i].st = "queued", ![i].dispatched = @ + 1]
    /\ pc' = IF i = Len(valid_rows) THEN "collect" ELSE "pool"
    /\ UNCHANGED <<df, valid_rows, result, failures, pdf_files, fs, failure_report_path,
                   summary, zip, sm, call>>

\* PoolHasFreeWorker of a pool that starts a thread for every work item
PoolAlwaysFree == TRUE

\* line 526, ThreadPoolExecutor(max_workers): a thread of the pool is free
PoolHasFreeWorker == Cardinality(Running) < max_workers

\* a pool thread takes the oldest queued work item and enters process_single_url
WorkerStart(i) ==
    /\ i \in Tasks
    /\ task[i].st = "queued"
    /\ \A j \in Tasks : j < i => task[j].st # "queued"
    /\ PoolHasFreeWorker
    /\ task' = [task EXCEPT ![i].st = "submit"]
    /\ UNCHANGED <<pc, df, valid_rows, result, failures, pdf_files, fs,
                   failure_report_path, summary, zip, sm, call>>

\* lines 401-403 raise: the exception escapes process_single_url and is the future's
RaiseBeforeTry(i) ==
    /\ i \in Tasks
    /\ task[i].st = "submit"
    /\ task[i].calls = <<>>
    /\ task' = [task EXCEPT ![i].st = "done", ![i].fut = Raised]
    /\ UNCHANGED <<pc, df, valid_rows, result, failures, pdf_files, fs,
                   failure_report_path, summary, zip, sm, call>>

\* an exception inside the try of lines 405-426, caught by lines 428-432
RaiseInTry(i) ==
    /\ i \in Tasks
    /\ task[i].st = "submit"
    /\ failures' = add_failure(failures, Row(i).url, Row(i).filename, ProcessingExc, RunSecond)
    /\ task' = [task EXCEPT ![i].st = "done", ![i].fut = Failed(ProcessingExc)]
    /\ UNCHANGED <<pc, df, valid_rows, result, pdf_files, fs,
                   failure_report_path, summary, zip, sm, call>>

\* lines 406-411, create_crawl_task: a task id, or None
CreateCrawlTask(i) ==
    /\ i \in Tasks
    /\ task[i].st = "submit"
    /\ \E task_id \in BOOLEAN :
          IF task_id
          THEN /\ task' = [task EXCEPT ![i].st = "wait", ![i].calls = Append(@, "submit")]
               /\ UNCHANGED failures
          ELSE /\ task' = [task EXCEPT ![i].st = "done", ![i].calls = Append(@, "submit"),
                                       ![i].fut = Failed(CreateFailed)]
               /\ failures' = add_failure(failures, Row(i).url, Row(i).filename, CreateFailed, RunSecond)
    /\ UNCHANGED <<pc, df, valid_rows, result, pdf_files, fs,
                   failure_report_path, summary, zip, sm, call>>

\* lines 413-417, wait_for_task_completion
WaitForTask(i) ==
    /\ i \in Tasks
    /\ task[i].st = "wait"
    /\ \E w \in WaitOutcomes :
          LET polled == [task EXCEPT ![i].calls = Append(@, "poll"),
                                     ![i].saw404 = w.saw404,
                                     ![i].after404 = w.after404,
                                     ![i].sawCompleted = w.sawCompleted]
          IN  IF w.ret = "True"
              THEN /\ task' = [polled EXCEPT ![i].st = "download"]
                   /\ UNCHANGED failures
              ELSE /\ task' = [polled EXCEPT ![i].st = "done", ![i].fut = Failed(WaitFailed)]
                   /\ failures' = add_failure(failures, Row(i).url, Row(i).filename, WaitFailed, RunSecond)
    /\ UNCHANGED <<pc, df, valid_rows, result, pdf_files, fs,
                   failure_report_path, summary, zip, sm, call>>

\* lines 419-426, download_pdf to pdf_path
DownloadPdf(i) ==
    /\ i \in Tasks
    /\ task[i].st = "download"
    /\ LET pdf_path == PdfPath(Row(i).filename)
       IN  \E d \in DownloadOutcomes(i, FileAt(fs, pdf_path)) :
              /\ fs' = WriteFile(fs, pdf_path, d.file)
              /\ IF d.ret = "True"
                 THEN /\ task' = [task EXCEPT ![i].st = "done", ![i].calls = Append(@, "download"),
                                              ![i].fut = Succeeded(pdf_path)]
                      /\ UNCHANGED failures
                 ELSE /\ task' = [task EXCEPT ![i].st = "done", ![i].calls = Append(@, "download"),
                                              ![i].fut = Failed(DownloadFailed)]
                      /\ failures' = add_failure(failures, Row(i).url, Row(i).filename, DownloadFailed, RunSecond)
    /\ UNCHANGED <<pc, df, valid_rows, result, pdf_files, failure_report_path,
                   summary, zip, sm, call>>

\* Counted with completed_tasks and failed_tasks both incremented for a success
CountedBoth(res, f) ==
    IF f.state = "returned" /\ f.success
    THEN [res EXCEPT !.completed_tasks = @ + 1, !.failed_tasks = @ + 1]
    ELSE [res EXCEPT !.failed_tasks = @ + 1,
                     !.errors = Append(@, IF f.state = "raised" THEN ParallelExc ELSE f.value[1])]

\* lines 538-553: result after the collector has read the done future f
Counted(res, f) ==
    CASE f.state = "raised" ->
           [res EXCEPT !.failed_tasks = @ + 1, !.errors = Append(@, ParallelExc)]
      [] f.state = "returned" /\ f.success ->
           [res EXCEPT !.completed_tasks = @ + 1]
      [] f.state = "returned" /\ ~f.success ->
           [res EXCEPT !.failed_tasks = @ + 1, !.errors = Append(@, f.value[1])]

\* AfterCollect of a collector that leaves the loop on a row that failed
AbortOnFailure(f) == IF f.state = "returned" /\ f.success THEN "collect" ELSE "returned"

\* lines 538-553: where the main thread is after it has read the done future
\* f: the except of line 549 keeps it in the loop whatever f holds
AfterCollect(f) == "collect"

\* the collecting loop recording a failure for every future that did not succeed
CollectedFailuresEvery(fl, f, row) ==
    IF f.state = "returned" /\ f.success THEN fl
    ELSE add_failure(fl, row.url, row.filename, ParallelExc, RunSecond)

\* lines 549-553: the loop records a failure only for a future that raised;
\* a future that returned False was recorded by process_single_url
CollectedFailures(fl, f, row) ==
    IF f.state = "raised"
    THEN add_failure(fl, row.url, row.filename, ParallelExc, RunSecond)
    ELSE fl

\* lines 534-553, one pass of the loop over as_completed: future i is done
Collect(i) ==
    /\ pc = "collect"
    /\ i \in Tasks
    /\ task[i].st = "done"
    /\ result' = Counted(result, task[i].fut)
    /\ task' = [task EXCEPT
                  ![i].st = "collected",
                  ![i].completed = @ + result'.completed_tasks - result.completed_tasks,
                  ![i].failed = @ + result'.failed_tasks - result.failed_tasks]
    /\ pdf_files' = IF task[i].fut.state = "returned" /\ task[i].fut.success
                    THEN Append(pdf_files, task[i].fut.value)
                    ELSE pdf_files
    /\ failures' = CollectedFailures(failures, task[i].fut, Row(i))
    /\ pc' = AfterCollect(task[i].fut)
    /\ UNCHANGED <<df, valid_rows, fs, failure_report_path, summary, zip, sm, call>>

\* the loop of line 534 left as soon as one future has been handled
AsCompletedFirst == \E i \in Tasks : task[i].st = "collected"

\* line 534, as_completed(future_to_data) has yielded every future
AsCompletedExhausted == \A i \in Tasks : task[i].st = "collected"

\* as_completed is exhausted and the with block of line 526 is left
PoolExit ==
    /\ pc = "collect"
    /\ AsCompletedExhausted
    /\ pc' = "report"
    /\ UNCHANGED <<df, valid_rows, result, failures, task, pdf_files, fs,
                   failure_report_path, summary, zip, sm, call>>

\* FailureReport.generate_report: TRUE and the file written, or FALSE
generate_report(fl, files, output_path, ok) ==
    IF fl = <<>> THEN [ret |-> TRUE, files |-> files]
    ELSE IF ok
         THEN [ret |-> TRUE,
               files |-> WriteFile(files, output_path, [by |-> Len(fl), state |-> "report"])]
         ELSE [ret |-> FALSE, files |-> files]

\* lines 555-566
GenerateReport ==
    /\ pc = "report"
    /\ IF failures # <<>>
       THEN /\ failure_report_path' = ReportName
            /\ \E ok \in BOOLEAN :
                  LET g == generate_report(failures, fs, ReportName, ok)
                  IN  /\ fs' = g.files
                      /\ result' = IF g.ret THEN result
                                   ELSE [result EXCEPT !.errors = Append(@, "report failed")]
            /\ pc' = "summary"
       ELSE /\ UNCHANGED <<failure_report_path, fs, result>>
            /\ pc' = "zip"
    /\ UNCHANGED <<df, valid_rows, failures, task, pdf_files, summary, zip, sm, call>>

\* lines 568-574
AppendSummary ==
    /\ pc = "summary"
    /\ \E w \in WriteOutcomes :
          LET a == append_to_global_summary(failures, summary, w)
          IN  /\ summary' = a.file
              /\ sm' = [file0 |-> IF sm.rets = <<>> THEN summary ELSE sm.file0,
                        rets |-> Append(sm.rets, a.ret),
                        files |-> Append(sm.files, a.file)]
              /\ result' = IF a.ret THEN result
                           ELSE [result EXCEPT !.errors = Append(@, "summary failed")]
    /\ pc' = "zip"
    /\ UNCHANGED <<df, valid_rows, failures, task, pdf_files, fs, failure_report_path,
                   zip, call>>

\* the entries zipf.write adds for the paths that exist (lines 441-452)
RECURSIVE PdfEntries(_, _)
PdfEntries(files, paths) ==
    IF paths = <<>> THEN <<>>
    ELSE (IF Exists(files, Head(paths))
          THEN <<[name |-> Head(paths), content |-> FileAt(files, Head(paths))]>>
          ELSE <<>>) \o PdfEntries(files, Tail(paths))

\* ExcelBatchProcessor.create_zip_file: TRUE and the archive, or FALSE
create_zip_file(files, paths, report_path, ok) ==
    IF ok
    THEN [ret |-> TRUE,
          zip |-> [written |-> TRUE,
                   entries |-> PdfEntries(files, paths) \o
                       (IF report_path # None /\ Exists(files, report_path)
                        THEN <<[name |-> report_path, content |-> FileAt(files, report_path)]>>
                        ELSE <<>>)]]
    ELSE [ret |-> FALSE, zip |-> NoZip]

\* the paths the clean-up of lines 586-598 calls os.remove on
TempFiles(files, paths, report_path) ==
    {paths[k] : k \in 1..Len(paths)} \cup
        (IF report_path # None /\ Exists(files, report_path) THEN {report_path} ELSE {})

\* the clean-up run whether or not the archive was written
remove_temp_files_always(files, removed, zipped) ==
    {f \in files : f.name \notin removed}

\* lines 586-598 under the test of line 582.  removed: the paths on which
\* os.remove succeeds; on the others it raises and the except clauses pass.
\* Without the archive no file is touched.
remove_temp_files(files, removed, zipped) ==
    IF zipped THEN {f \in files : f.name \notin removed} ELSE files

\* lines 576-602
Bundle ==
    /\ pc = "zip"
    /\ IF pdf_files # <<>> \/ failure_report_path # None
       THEN \E ok \in BOOLEAN :
               LET z == create_zip_file(fs, pdf_files, failure_report_path, ok)
               IN  /\ zip' = z.zip
                   /\ result' = IF z.ret
                                THEN [result EXCEPT !.zip_path = <<"zip">>, !.success = TRUE]
                                ELSE [result EXCEPT !.errors = Append(@, "zip failed")]
                   /\ \E removed \in SUBSET TempFiles(fs, pdf_files, failure_report_path) :
                         fs' = remove_temp_files(fs, removed, z.ret)
       ELSE /\ result' = [result EXCEPT !.errors = Append(@, "nothing to bundle")]
            /\ UNCHANGED <<zip, fs>>
    /\ pc' = "returned"
    /\ UNCHANGED <<df, valid_rows, failures, task, pdf_files, failure_report_path,
                   summary, sm, call>>

\* process_excel_file from line 476 on
Run ==
    \/ FilterRows
    \/ MakeDirs
    \/ \E i \in 1..MaxRows : ExecutorSubmit(i)
    \/ \E i \in 1..MaxRows : WorkerStart(i)
    \/ \E i \in 1..MaxRows : RaiseBeforeTry(i)
    \/ \E i \in 1..MaxRows : RaiseInTry(i)
    \/ \E i \in 1..MaxRows : CreateCrawlTask(i)
    \/ \E i \in 1..MaxRows : WaitForTask(i)
    \/ \E i \in 1..MaxRows : DownloadPdf(i)
    \/ \E i \in 1..MaxRows : Collect(i)
    \/ PoolExit
    \/ GenerateReport
    \/ AppendSummary
    \/ Bundle

Next ==
    \/ ReadExcel
    \/ Run

Spec == Init /\ [][Next]_vars

NextFair ==
    \/ ReadShortExcel
    \/ Run

\* the run is scheduled: a thread that can take a step takes one
FairSpec == Init /\ [][NextFair]_vars /\ WF_vars(NextFair)

(***************************************************************************)
(* FailureReport.append_to_global_summary called repeatedly on one         *)
(* FailureReport, on a summary file that is absent, unreadable or a table  *)
(* an earlier call wrote (sorted by timestamp, descending).                *)
(***************************************************************************)
Timestamps == 0..MaxTs
Records == [link : {UrlBad}, title : {UrlBad}, reason : {InvalidUrl}, ts : Timestamps]

SortedDesc(t) == \A k \in 1..(Len(t) - 1) : t[k].ts >= t[k + 1].ts

InitSummary ==
    /\ pc = "summary_calls"
    /\ df = <<>>
    /\ valid_rows = <<>>
    /\ result = [success |-> FALSE, total_tasks |-> 0, completed_tasks |-> 0,
                 failed_tasks |-> 0, zip_path |-> None, errors |-> <<>>]
    /\ failures \in SeqsUpTo(Records, MaxRecords) \ {<<>>}
    /\ task = <<>>
    /\ pdf_files = <<>>
    /\ fs = {}
    /\ failure_report_path = None
    /\ summary \in {Absent, Corrupt}
                     \cup {Table(t) : t \in {u \in SeqsUpTo(Records, MaxRecords) : SortedDesc(u)}}
    /\ zip = NoZip
    /\ sm = [NoAppends EXCEPT !.file0 = summary]
    /\ call = NoCall

\* one call of append_to_global_summary(global_summary_path)
SummaryAppend ==
    /\ pc = "summary_calls"
    /\ Len(sm.rets) < MaxAppends
    /\ \E w \in WriteOutcomes :
          LET a == append_to_global_summary(failures, summary, w)
          IN  /\ summary' = a.file
              /\ sm' = [sm EXCEPT !.rets = Append(@, a.ret), !.files = Append(@, a.file)]
    /\ UNCHANGED <<pc, df, valid_rows, result, failures, task, pdf_files, fs,
                   failure_report_path, zip, call>>

NextSummary == SummaryAppend

SpecSummary == InitSummary /\ [][NextSummary]_vars

(***************************************************************************)
(* Properties.                                                             *)
(***************************************************************************)
Returned == pc = "returned"
\* the with block of line 526 was entered: the first row was handed to the pool
PoolEntered == Tasks # {} /\ task[1].dispatched > 0
\* the with block of line 526 was left
PoolLeft == pc \in {"report", "summary", "zip"} \/ (Returned /\ PoolEntered)
RowSucceeded(i) == task[i].fut.state = "returned" /\ task[i].fut.success
RowFailed(i) == task[i].fut.state = "raised" \/ (task[i].fut.state = "returned" /\ ~task[i].fut.success)
RECURSIVE SumOver(_, _)
SumOver(f, n) == IF n = 0 THEN 0 ELSE f[n] + SumOver(f, n - 1)
\* the rows of df that process_excel_file rejects
Rejected == {k \in 1..Len(df) : ~validate_url(FixedUrl(df[k]))}

\* C1: every result process_excel_file returns has
\* completed_tasks + failed_tasks = total_tasks, whatever way the run ends.
C1_CountsAddUp ==
    Returned => result.completed_tasks + result.failed_tasks = result.total_tasks

C3_FailureDoesNotAbort ==
    (~Returned /\ \E i \in Tasks : RowFailed(i))
        ~> (/\ pc = "zip"
            /\ \A j \in Tasks : task[j].st = "collected"
            /\ failure_report_path = ReportName)

C3_Witness ==
    /\ pc = "zip"
    /\ task[1].fut.state = "raised"
    /\ task[1].st = "collected"
    /\ \E i \in Tasks : RowSucceeded(i) /\ task[i].completed = 1 /\ task[i].st = "collected"
    /\ failure_report_path = ReportName

\* C4: once the rows are filtered, a row whose fixed url fails validate_url
\* has no task in the pool, so no submit, poll or download call is made for
\* it, and the failure list holds a record of it with the invalid-URL reason.
C4_InvalidNeverSubmitted ==
    pc \notin {"start", "filter", "summary_calls"} =>
        \A k \in Rejected :
            /\ \A i \in Tasks : Row(i).index = k => task[i].calls = <<>> /\ task[i].st = "new"
            /\ \E n \in 1..Len(failures) :
                  /\ failures[n].link = OriginalUrl(df[k])
                  /\ failures[n].reason = InvalidUrl

C4_Witness ==
    /\ Returned
    /\ Rejected # {}
    /\ \E i \in Tasks : task[i].calls = <<"submit", "poll", "download">>

\* C5: the rows between the start of process_single_url and their outcome
\* are never more than max_workers.
C5_InFlightBounded == Cardinality(Running) <= max_workers

C5_Witness ==
    /\ Len(task) > max_workers
    /\ Cardinality(Running) = max_workers
    /\ \E i \in Tasks : task[i].st = "queued"

\* C6: a row whose status poll was answered with HTTP 404 made at most one
\* poll after it, made no download call, and ends as a failure.
C6_NotFoundStopsPolling ==
    \A i \in Tasks :
        task[i].saw404 =>
            /\ task[i].after404 <= 1
            /\ task[i].calls = <<"submit", "poll">>
            /\ task[i].fut = Failed(WaitFailed)

C6_Witness == \E i \in Tasks : task[i].saw404 /\ task[i].st = "collected"

\* C7: a run that recorded a failure ends with an archive that holds the
\* failure report.
C7_FailuresReachArchive ==
    Returned /\ failures # <<>> =>
        /\ zip.written
        /\ \E n \in 1..Len(zip.entries) : zip.entries[n].name = ReportName

\* C8: the archive holds, for every successful row, exactly one entry named
\* after the row's sanitised title that holds the whole body downloaded for
\* that row, and no other pdf entry.
C8_OneArtifactPerRow ==
    zip.written =>
        /\ \A i \in Tasks :
              RowSucceeded(i) =>
                  Cardinality({n \in 1..Len(zip.entries) :
                      /\ zip.entries[n].name = PdfPath(Row(i).filename)
                      /\ zip.entries[n].content = [by |-> i, state |-> "full"]}) = 1
        /\ Cardinality({n \in 1..Len(zip.entries) : zip.entries[n].name # ReportName})
              = Cardinality({i \in Tasks : RowSucceeded(i)})

\* C9: a run that ends with no artifact and no failure record wrote no
\* archive, is unsuccessful, and names an error in result.errors.
C9_NothingToBundle ==
    Returned /\ pdf_files = <<>> /\ failures = <<>> =>
        /\ ~zip.written
        /\ result.zip_path = None
        /\ ~result.success
        /\ result.errors # <<>>

C9_Witness ==
    /\ Returned
    /\ pdf_files = <<>>
    /\ failures = <<>>
    /\ result.errors = <<"no valid URL">>

\* the number of records of the table t that equal r
CountIn(t, r) == Cardinality({k \in 1..Len(t) : t[k] = r})

\* C10: when the first two appends of the same n records both succeed on a
\* summary of s records, the table then holds s + 2n records, each record r
\* as often as before plus twice its number in the list; after every append
\* that succeeds the table is sorted by timestamp, descending.
C10_AppendTwice ==
    /\ \A k \in 1..Len(sm.rets) :
          sm.rets[k] => sm.files[k].kind = "table" /\ SortedDesc(sm.files[k].rows)
    /\ (Len(sm.rets) >= 2 /\ sm.rets[1] /\ sm.rets[2]) =>
          /\ Len(sm.files[2].rows) = Len(ReadSummary(sm.file0)) + 2 * Len(failures)
          /\ \A r \in Records :
                CountIn(sm.files[2].rows, r)
                    = CountIn(ReadSummary(sm.file0), r) + 2 * CountIn(failures, r)

C10_Witness ==
    /\ Len(sm.rets) = 2
    /\ sm.rets[1] /\ sm.rets[2]
    /\ sm.file0.kind = "table"
    /\ Len(sm.file0.rows) = 2
    /\ Len(failures) = 2
    /\ failures[1].ts < failures[2].ts

\* the file at the summary path before the k-th call of append_to_global_summary
FileBefore(k) == IF k = 1 THEN sm.file0 ELSE sm.files[k - 1]

\* C11: whatever happens during a rewrite of the summary file, the file at
\* the summary path is afterwards the complete table it held before the call
\* or the complete new table (the old records and the new ones, sorted).
C11_AtomicRewrite ==
    \A k \in 1..Len(sm.files) :
        sm.files[k] \in
            {FileBefore(k), Table(SortDesc(ReadSummary(FileBefore(k)) \o failures))}

(***************************************************************************)
(* FailureReport.add_failure called by several threads at once on one      *)
(* FailureReport.  A caller passes a link, a title, a reason and a         *)
(* timestamp or none; the steps of a call are the default of lines 45-46,  *)
(* the entry of the with block of line 51, the append of lines 52-58 and   *)
(* the exit of the with block.                                             *)
(***************************************************************************)
\* timestamp = None
NoTimestamp == -1

CallerArgs ==
    {[link |-> UrlGood, title |-> <<"a">>, reason |-> WaitFailed, ts |-> NoTimestamp],
     [link |-> UrlBad, title |-> UrlBad, reason |-> InvalidUrl, ts |-> 1]}

\* the callers of add_failure and the arguments each one passes
CallerSets == UNION {[1..k -> CallerArgs] : k \in 1..MaxCallers}

NewCaller(args) == [at |-> "enter", args |-> args, timestamp |-> args.ts]

InitAdd ==
    /\ pc = "add_failure_calls"
    /\ df = <<>>
    /\ valid_rows = <<>>
    /\ result = [success |-> FALSE, total_tasks |-> 0, completed_tasks |-> 0,
                 failed_tasks |-> 0, zip_path |-> None, errors |-> <<>>]
    /\ failures \in {<<>>, <<[link |-> UrlBad, title |-> UrlBad, reason |-> InvalidUrl, ts |-> 0]>>}
    /\ task = <<>>
    /\ pdf_files = <<>>
    /\ fs = {}
    /\ failure_report_path = None
    /\ summary = Absent
    /\ zip = NoZip
    /\ sm = NoAppends
    /\ \E cs \in CallerSets :
          call = [fn |-> "add_failure", before |-> failures, lock |-> 0,
                  th |-> [t \in DOMAIN cs |-> NewCaller(cs[t])]]

Callers == DOMAIN call.th

\* lines 45-46: a call without a timestamp takes the second it is made in
AddEnter(t) ==
    /\ pc = "add_failure_calls"
    /\ t \in Callers
    /\ call.th[t].at = "enter"
    /\ \E now \in Timestamps :
          call' = [call EXCEPT
                     !.th[t].at = "lock",
                     !.th[t].timestamp = IF @ = NoTimestamp THEN now ELSE @]
    /\ UNCHANGED <<pc, df, valid_rows, result, failures, task, pdf_files, fs,
                   failure_report_path, summary, zip, sm>>

\* line 51, with self.lock: entered when no thread holds the lock
LockFree(lock) == lock = 0

AddAcquire(t) ==
    /\ pc = "add_failure_calls"
    /\ t \in Callers
    /\ call.th[t].at = "lock"
    /\ LockFree(call.lock)
    /\ call' = [call EXCEPT !.lock = t, !.th[t].at = "append"]
    /\ UNCHANGED <<pc, df, valid_rows, result, failures, task, pdf_files, fs,
                   failure_report_path, summary, zip, sm>>

\* lines 52-58
AddAppend(t) ==
    /\ pc = "add_failure_calls"
    /\ t \in Callers
    /\ call.th[t].at = "append"
    /\ failures' = add_failure(failures, call.th[t].args.link, call.th[t].args.title,
                               call.th[t].args.reason, call.th[t].timestamp)
    /\ call' = [call EXCEPT !.th[t].at = "release"]
    /\ UNCHANGED <<pc, df, valid_rows, result, task, pdf_files, fs,
                   failure_report_path, summary, zip, sm>>

\* the with block of line 51 is left
AddRelease(t) ==
    /\ pc = "add_failure_calls"
    /\ t \in Callers
    /\ call.th[t].at = "release"
    /\ call' = [call EXCEPT !.lock = 0, !.th[t].at = "done"]
    /\ UNCHANGED <<pc, df, valid_rows, result, failures, task, pdf_files, fs,
                   failure_report_path, summary, zip, sm>>

NextAdd ==
    \/ \E t \in 1..MaxCallers : AddEnter(t)
    \/ \E t \in 1..MaxCallers : AddAcquire(t)
    \/ \E t \in 1..MaxCallers : AddAppend(t)
    \/ \E t \in 1..MaxCallers : AddRelease(t)

SpecAdd == InitAdd /\ [][NextAdd]_vars

\* the callers whose append was made
Appended == {t \in Callers : call.th[t].at \in {"release", "done"}}
\* the record the caller t passed
Passed(t) ==
    [link |-> call.th[t].args.link, title |-> call.th[t].args.title,
     reason |-> call.th[t].args.reason, ts |-> call.th[t].timestamp]

\* C12: with the calls of add_failure interleaved in any way, the failure
\* list holds the records it held before and one record for every call whose
\* append was made, each equal to what its caller passed: after k calls there
\* are k more records, none lost and none torn; at most one thread is inside
\* the with block.
C12_ConcurrentAdds ==
    /\ Len(failures) = Len(call.before) + Cardinality(Appended)
    /\ \A r \in {failures[n] : n \in 1..Len(failures)}
              \cup {Passed(t) : t \in Appended} :
          CountIn(failures, r)
              = CountIn(call.before, r) + Cardinality({t \in Appended : Passed(t) = r})
    /\ Cardinality({t \in Callers : call.th[t].at \in {"append", "release"}}) <= 1

C12_Witness ==
    /\ Cardinality(Callers) = MaxCallers
    /\ \A t \in Callers : call.th[t].at = "done"
    /\ \E t, u \in Callers : Passed(t) # Passed(u)
    /\ \E t, u \in Callers : t < u /\ Passed(t) = Passed(u)
    /\ Len(failures) = Len(call.before) + MaxCallers

\* what a returned run shows of a failed stage: the report was due and is
\* neither in the output directory nor in the archive; the summary file is
\* not the old table plus the run's records; there was something to bundle
\* and no archive was written
ReportFailed ==
    /\ failure_report_path = ReportName
    /\ ~Exists(fs, ReportName)
    /\ \A n \in 1..Len(zip.entries) : zip.entries[n].name # ReportName
SummaryFailed ==
    /\ failure_report_path = ReportName
    /\ summary # Table(SortDesc(ReadSummary(OldSummary) \o failures))
ZipFailed ==
    /\ pdf_files # <<>> \/ failure_report_path # None
    /\ ~zip.written
HasError(e) == \E n \in 1..Len(result.errors) : result.errors[n] = e

\* C13: a run in which the failure report, the summary append or the
\* archive failed returns a result (no exception leaves process_excel_file)
\* that names the failure in errors and whose success flag is False.
C13_StageFailuresDegrade ==
    Returned =>
        /\ ReportFailed => HasError("report failed") /\ ~result.success
        /\ SummaryFailed => HasError("summary failed") /\ ~result.success
        /\ ZipFailed => HasError("zip failed") /\ ~result.success

(***************************************************************************)
(* ExcelBatchProcessor.fix_url_format applied to a string and again to     *)
(* its result.  The strings: optional leading whitespace, a prefix, and a  *)
(* body of at most MaxBody characters or a body that repeats a prefix.     *)
(***************************************************************************)
FixPrefixes ==
    {<<>>, <<"h", "t", "t", "p">>, <<"h", "t", "t", "p", "s">>,
     HttpsColonSlash, HttpColonSlash, HttpsSlash, HttpSlash, HttpsCanon, HttpCanon}
BodyChars == {"/", ":", "x", " ", "s"}
FixBodies ==
    SeqsUpTo(BodyChars, MaxBody)
        \cup {<<"x", "/">> \o p \o <<"y">> : p \in {HttpColonSlash, HttpsSlash}}
FixInputs ==
    {lead \o p \o body : lead \in {<<>>, <<" ">>, <<"\t", " ">>}, p \in FixPrefixes, body \in FixBodies}

InitFix ==
    /\ pc = "fix_calls"
    /\ df = <<>>
    /\ valid_rows = <<>>
    /\ result = [success |-> FALSE, total_tasks |-> 0, completed_tasks |-> 0,
                 failed_tasks |-> 0, zip_path |-> None, errors |-> <<>>]
    /\ failures = <<>>
    /\ task = <<>>
    /\ pdf_files = <<>>
    /\ fs = {}
    /\ failure_report_path = None
    /\ summary = Absent
    /\ zip = NoZip
    /\ sm = NoAppends
    /\ \E x \in FixInputs : call = [fn |-> "fix_url_format", url |-> x, outs |-> <<>>]

\* fix_url_format(url), then fix_url_format of what it returned
FixApply ==
    /\ pc = "fix_calls"
    /\ Len(call.outs) < 2
    /\ call' = [call EXCEPT !.outs =
                   Append(@, fix_url_format(IF @ = <<>> THEN call.url ELSE @[Len(@)]))]
    /\ UNCHANGED <<pc, df, valid_rows, result, failures, task, pdf_files, fs,
                   failure_report_path, summary, zip, sm>>

NextFix == FixApply

SpecFix == InitFix /\ [][NextFix]_vars

\* the malformed prefixes and the canonical form of each
Malformed == {HttpsColonSlash, HttpColonSlash, HttpsSlash, HttpSlash}
Canonical(p) == IF p \in {HttpsColonSlash, HttpsSlash} THEN HttpsCanon ELSE HttpCanon
\* u begins with the malformed prefix p, one slash and then a non-slash character
BeginsMalformed(u, p) ==
    /\ p \in Malformed
    /\ StartsWith(u, p)
    /\ Len(u) > Len(p)
    /\ u[Len(p) + 1] # "/"
\* u with its prefix p replaced by the canonical form
Canonicalised(u, p) == Canonical(p) \o SubSeq(u, Len(p) + 1, Len(u))

\* C14 as stated: for a URL that begins with a malformed prefix followed by
\* a non-slash character, fix_url_format returns that URL with the prefix
\* replaced by the canonical form and the rest of the string unchanged.
C14_PrefixRewrittenRestKept ==
    \A p \in Malformed :
        (Len(call.outs) >= 1 /\ BeginsMalformed(call.url, p)) =>
            call.outs[1] = Canonicalised(call.url, p)

\* C14, amended: for such a URL fix_url_format returns the URL stripped of
\* its surrounding whitespace, with the prefix replaced by the canonical
\* form and the rest of the stripped string unchanged.
C14_PrefixRewrittenOfStripped ==
    \A p \in Malformed :
        (Len(call.outs) >= 1 /\ BeginsMalformed(call.url, p)) =>
            call.outs[1] = Canonicalised(Strip(call.url), p)

C14_Witness ==
    /\ Len(call.outs) >= 1
    /\ BeginsMalformed(call.url, HttpsSlash)
    /\ call.url # Strip(call.url)
    /\ Len(Strip(call.url)) > Len(HttpsSlash)
    /\ call.outs[1] = Canonicalised(Strip(call.url), HttpsSlash)

\* C15: fix_url_format applied to its own result returns that result.
C15_FixIdempotent == Len(call.outs) = 2 => call.outs[2] = call.outs[1]

C15_Witness ==
    /\ Len(call.outs) = 2
    /\ call.url # Strip(call.url)
    /\ StartsWith(Strip(call.url), HttpSlash)
    /\ call.outs[1] # Strip(call.url)
    /\ call.outs[2] = call.outs[1]

\* C16: the remote calls made for a row are a prefix of submit, poll,
\* download; a row whose submit returned no task id made no poll; a row for
\* which a download was issued had a poll that observed completed; a row is
\* successful only after all three calls, the poll having observed completed.
C16_StagesInOrder ==
    \A i \in Tasks :
        /\ task[i].calls \in {<<>>, <<"submit">>, <<"submit", "poll">>,
                              <<"submit", "poll", "download">>}
        /\ task[i].fut = Failed(CreateFailed) => task[i].calls = <<"submit">>
        /\ task[i].st = "download" => task[i].sawCompleted
        /\ Len(task[i].calls) = 3 => task[i].sawCompleted
        /\ RowSucceeded(i) =>
              /\ task[i].calls = <<"submit", "poll", "download">>
              /\ task[i].sawCompleted
              /\ task[i].fut = Succeeded(PdfPath(Row(i).filename))

C16_Witness ==
    /\ \E i \in Tasks : RowSucceeded(i) /\ task[i].st = "collected"
    /\ \E i \in Tasks : task[i].fut = Failed(WaitFailed) /\ task[i].calls = <<"submit", "poll">>
    /\ \E i \in Tasks : task[i].fut = Failed(CreateFailed)

(***************************************************************************)
(* ExcelBatchProcessor.wait_for_task_completion run on its own, one pass   *)
(* of the while loop per step, the remote service free to answer every     *)
(* poll with any response after any latency.  Beside the loop's locals the *)
(* call records the last response (last), the number of transient         *)
(* failures that ended with it without another response in between        *)
(* (streak), and whether every response so far left the task waiting      *)
(* (waiting).                                                              *)
(***************************************************************************)
\* the responses handled by the except clauses of lines 323-339
TransientFailures == {"timeout", "connerr", "exception"}
\* the responses that neither end the wait nor count as a failed request
StillWaiting == {"pending", "processing", "unknown", "httpOther"}

InitWait ==
    /\ pc = "wait_call"
    /\ df = <<>>
    /\ valid_rows = <<>>
    /\ result = [success |-> FALSE, total_tasks |-> 0, completed_tasks |-> 0,
                 failed_tasks |-> 0, zip_path |-> None, errors |-> <<>>]
    /\ failures = <<>>
    /\ task = <<>>
    /\ pdf_files = <<>>
    /\ fs = {}
    /\ failure_report_path = None
    /\ summary = Absent
    /\ zip = NoZip
    /\ sm = NoAppends
    /\ call = [fn |-> "wait_for_task_completion", s |-> WaitInit,
               last |-> "none", streak |-> 0, waiting |-> TRUE]

\* lines 291-341: the while condition holds and the body runs once
WaitPoll ==
    /\ pc = "wait_call"
    /\ call.s.ret = "run"
    /\ WaitGuard(call.s)
    /\ \E resp \in PollResponses, latency \in Latencies :
          call' = [call EXCEPT
                     !.s = PollStep(@, resp, latency),
                     !.last = resp,
                     !.streak = IF resp \in TransientFailures THEN @ + 1 ELSE 0,
                     !.waiting = @ /\ resp \in StillWaiting]
    /\ UNCHANGED <<pc, df, valid_rows, result, failures, task, pdf_files, fs,
                   failure_report_path, summary, zip, sm>>

\* lines 343-344: the while condition fails
WaitGiveUp ==
    /\ pc = "wait_call"
    /\ call.s.ret = "run"
    /\ ~WaitGuard(call.s)
    /\ call' = [call EXCEPT !.s.ret = "False", !.s.timedOut = TRUE]
    /\ UNCHANGED <<pc, df, valid_rows, result, failures, task, pdf_files, fs,
                   failure_report_path, summary, zip, sm>>

NextWait ==
    \/ WaitPoll
    \/ WaitGiveUp

\* the thread in the loop keeps running
SpecWait == InitWait /\ [][NextWait]_vars /\ WF_vars(NextWait)

\* C17: wait_for_task_completion returns whatever the remote service
\* answers; no poll is started once the elapsed time has reached
\* max_wait_time; and when every answer left the task waiting (pending,
\* processing, an unknown status, a non-200 status other than 404) the call
\* returns False from line 344, the wait having timed out.
C17_WaitTerminates ==
    /\ [](pc = "wait_call" =>
            /\ ~call.s.lateStart
            /\ (call.waiting /\ call.s.ret # "run") =>
                  call.s.ret = "False" /\ call.s.timedOut)
    /\ <>(pc = "wait_call" => call.s.ret # "run")

C17_Witness ==
    /\ pc = "wait_call"
    /\ call.waiting
    /\ call.s.timedOut
    /\ call.s.ret = "False"
    /\ call.s.elapsed >= max_wait_time
    /\ call.s.polls >= max_wait_time \div (PollSleep + 30)

\* C18: the wait ends when the third of three transient failures in a row
\* occurs; it does not end on a transient failure that is not the third in
\* a row; and after a poll that found the task pending or processing the
\* retry counter is zero.
C18_ThreeConsecutiveTransients ==
    pc = "wait_call" =>
        /\ call.streak = PollMaxRetries => call.s.ret = "False"
        /\ (call.s.ret = "False" /\ ~call.s.timedOut /\ call.last \in TransientFailures) =>
              call.streak = PollMaxRetries
        /\ call.last \in {"pending", "processing"} => call.s.retry_count = 0

(***************************************************************************)
(* One call of ExcelBatchProcessor.download_pdf run on its own, one pass   *)
(* of the while loop per step, the remote service free to answer every     *)
(* request with any response.  Beside the loop's locals the call records   *)
(* the response of the latest pass (last), the responses after which       *)
(* another pass was started (retried), and whether the call has opened     *)
(* output_path for writing (wrote).                                        *)
(***************************************************************************)
\* the responses on which line 360 opens output_path
Written == {"ok", "empty", "cut"}

InitDownload ==
    /\ pc = "download_call"
    /\ df = <<>>
    /\ valid_rows = <<>>
    /\ result = [success |-> FALSE, total_tasks |-> 0, completed_tasks |-> 0,
                 failed_tasks |-> 0, zip_path |-> None, errors |-> <<>>]
    /\ failures = <<>>
    /\ task = <<>>
    /\ pdf_files = <<>>
    /\ fs = {}
    /\ failure_report_path = None
    /\ summary = Absent
    /\ zip = NoZip
    /\ sm = NoAppends
    /\ \E tid \in 1..MaxRows, file0 \in FileContents :
          call = [fn |-> "download_pdf", tid |-> tid,
                  s |-> [retry_count |-> 0, attempts |-> 0, ret |-> "run",
                         file |-> file0],
                  last |-> "none", retried |-> {}, wrote |-> FALSE]

\* lines 351-390: the while condition holds and the body runs once
DownloadAttempt ==
    /\ pc = "download_call"
    /\ call.s.ret = "run"
    /\ call.s.retry_count < DownloadMaxRetries
    /\ \E resp \in DownloadResponses :
          call' = [call EXCEPT
                     !.s = DownloadStep(@, resp, call.tid),
                     !.last = resp,
                     !.retried = IF call.last = "none" THEN @ ELSE @ \cup {call.last},
                     !.wrote = @ \/ resp \in Written]
    /\ UNCHANGED <<pc, df, valid_rows, result, failures, task, pdf_files, fs,
                   failure_report_path, summary, zip, sm>>

\* lines 392-393: the while condition fails
DownloadGiveUp ==
    /\ pc = "download_call"
    /\ call.s.ret = "run"
    /\ ~(call.s.retry_count < DownloadMaxRetries)
    /\ call' = [call EXCEPT !.s.ret = "False"]
    /\ UNCHANGED <<pc, df, valid_rows, result, failures, task, pdf_files, fs,
                   failure_report_path, summary, zip, sm>>

NextDownload ==
    \/ DownloadAttempt
    \/ DownloadGiveUp

SpecDownload == InitDownload /\ [][NextDownload]_vars

\* C19: download_pdf makes at most three attempts, and starts another
\* attempt only after an attempt that ended in a timeout or a connection
\* error; after HTTP 404, another non-200 status, an empty file or another
\* exception no further attempt is made.
C19_RetryOnlyTimeoutOrConnection ==
    pc = "download_call" =>
        /\ call.s.attempts <= DownloadMaxRetries
        /\ call.retried \subseteq {"timeout", "connerr"}

\* C20: when download_pdf has returned False, output_path holds no file
\* that this call wrote: an empty or incompletely streamed file has been
\* removed.
C20_FailedDownloadLeavesNoFile ==
    (pc = "download_call" /\ call.s.ret = "False" /\ call.wrote) =>
        call.s.file = NoFile

\* the paths of the output directory that hold a file before a step and
\* none after it
Deleted == {f.name : f \in {g \in fs : ~Exists(fs', g.name)}}

\* C21: once every row is collected, a file of the output directory (a
\* collected PDF or the failure report) is deleted only by the step that
\* wrote the archive successfully: while the report and the summary are
\* produced, and when create_zip_file fails or is skipped, no file is
\* deleted.  Whichever deletions fail, the step that wrote the archive
\* returns the same result (success, zip_path set, no error added).
C21_CleanupOnlyAfterArchive ==
    [][(pc \in {"report", "summary", "zip"}) =>
          /\ Deleted # {} =>
                /\ pc = "zip"
                /\ zip'.written
                /\ result'.success
                /\ Deleted \subseteq TempFiles(fs, pdf_files, failure_report_path)
          /\ (pc = "zip" /\ zip'.written) =>
                /\ pc' = "returned"
                /\ result' = [result EXCEPT !.zip_path = <<"zip">>, !.success = TRUE]
      ]_vars

\* a run that wrote the archive, deleted one of the archived files and
\* failed to delete a collected PDF
C21_Witness ==
    /\ Returned
    /\ zip.written
    /\ result.success
    /\ \E k \in 1..Len(pdf_files) : Exists(fs, pdf_files[k])
    /\ \E k \in 1..Len(zip.entries) : ~Exists(fs, zip.entries[k].name)

\* every admitted row has reached its terminal outcome: its future is done
\* and the collecting loop has handled it
AllRowsResolved ==
    /\ Len(task) = Len(valid_rows)
    /\ \A i \in Tasks :
          /\ task[i].st = "collected"
          /\ RowSucceeded(i) \/ RowFailed(i)

\* C22: report generation, the summary update and bundling start only when
\* every admitted row is resolved (the run is at one of these stages, or
\* shows an effect of one, only then), and a run calls
\* append_to_global_summary at most once, however many rows failed.
C22_PostProcessingAfterAllRows ==
    /\ (\/ pc \in {"report", "summary", "zip"}
        \/ failure_report_path # None
        \/ sm.rets # <<>>
        \/ zip.written
        \/ result.zip_path # None) => AllRowsResolved
    /\ Len(sm.rets) <= 1
    /\ sm.rets # <<>> => pc \in {"zip", "returned"}

\* a run in which two rows failed and the summary was updated
C22_Witness ==
    /\ Returned
    /\ Len(sm.rets) = 1
    /\ sm.rets[1]
    /\ Cardinality({i \in Tasks : RowFailed(i)}) >= 2
    /\ \E i \in Tasks : RowSucceeded(i)

\* what a failure record says of its row: the link and the title
RejectedKey(k) == [link |-> OriginalUrl(df[k]), title |-> FileName(df[k])]
RowKey(i) == [link |-> Row(i).url, title |-> Row(i).filename]
RecordsFor(key) ==
    Cardinality({n \in 1..Len(failures) :
                    failures[n].link = key.link /\ failures[n].title = key.title})

\* C23: when the run is past the filter and every admitted row is
\* resolved, the failure list holds failed_tasks + (number of rejected
\* rows) records, and for every link and title the records that carry them
\* are as many as the rejected rows and the failed rows that carry them:
\* one record per failed or rejected row, none for a successful row.
C23_OneRecordPerFailure ==
    (pc \in {"report", "summary", "zip", "returned"} /\ AllRowsResolved) =>
        /\ Len(failures) = result.failed_tasks + Cardinality(Rejected)
        /\ \A key \in {RejectedKey(k) : k \in Rejected} \cup {RowKey(i) : i \in Tasks}
                       \cup {[link |-> failures[n].link, title |-> failures[n].title] :
                                  n \in 1..Len(failures)} :
              RecordsFor(key) =
                  Cardinality({k \in Rejected : RejectedKey(k) = key})
                  + Cardinality({i \in Tasks : RowFailed(i) /\ RowKey(i) = key})

\* a resolved run with a rejected row, a row that returned failure and a
\* row that succeeded
C23_Witness ==
    /\ Returned
    /\ AllRowsResolved
    /\ Rejected # {}
    /\ \E i \in Tasks : task[i].fut.state = "returned" /\ ~task[i].fut.success
    /\ \E i \in Tasks : RowSucceeded(i)
    /\ Len(failures) = 2

\* C24: a run that returns success = True wrote an archive that holds at
\* least one entry, a PDF or the failure report.
C24_SuccessArchiveNotEmpty ==
    (Returned /\ result.success) =>
        /\ zip.written
        /\ result.zip_path # None
        /\ zip.entries # <<>>

====
